---- MODULE Spec2Model ----
(***************************************************************************)
(* State-machine model of the Bedrock agent optimizer:                     *)
(*   src/src/router.py         PredictiveRouter   (bigram transition model)*)
(*   src/src/cache.py          AgentResponseCache (Redis-backed cache)     *)
(*   src/src/agent_wrapper.py  BedrockAgentOptimizer (chain orchestrator)  *)
(*                                                                         *)
(* Python dicts are modelled as insertion-ordered sequences of <<key,      *)
(* value>> pairs, texts as sequences of strings, floats that are ratios of *)
(* counters as pairs <<numerator, denominator>>.                           *)
(***************************************************************************)
EXTENDS Integers, Sequences, FiniteSets, TLC

(***************************************************************************)
(* Bounds of the model.                                                    *)
(***************************************************************************)
\* observations a router accepts in the router specification
MaxObs == 3
\* longest trace handed to ingest_trace
MaxTraceLen == 3
\* chain runs started in the orchestrator specification
MaxRuns == 2
\* longest chain handed to run_chain
MaxChainLen == 2
\* clock steps taken in the orchestrator specification
MaxTicks == 1
\* record_transition calls made in the concurrent specification
MaxCalls == 3
\* callers of the concurrent specification
NumThreads == 2
\* calls made to the cache in the cache specification
MaxCacheCalls == 3

(***************************************************************************)
(* Program constants and input domains.                                    *)
(***************************************************************************)
\* Python's None where an agent identifier is expected
NoneAgent == "<None>"
\* agent identifiers of the router specification
RouterAgents == {"A", "B", "C", "D"}
\* the agents the router specification records transitions from
RouterSources == {"A", "B"}
\* an agent identifier that is never recorded
UnseenAgent == "unknown"
\* values of OptimizerConfig.prediction_threshold, as <<numerator, denominator>>;
\* <<7, 10>> is the default
Thresholds == {<<0, 1>>, <<1, 3>>, <<1, 2>>, <<7, 10>>, <<1, 1>>}
\* the float 0.0
Zero == <<0, 1>>
\* OptimizerConfig.cache_ttl, in seconds (the default)
cache_ttl == 300
\* agent identifiers of the orchestrator specification
ChainAgents == {"A", "B"}
\* initial inputs of run_chain
Inputs == {<<"q">>}
\* the threshold the orchestrator specification is configured with (the default)
ChainThresholds == {<<7, 10>>}
\* agent identifiers of the concurrent specification
ConcAgents == {"A", "B"}
\* the callers of the concurrent specification
ThreadIds == 1..NumThreads
\* how far the clock moves in one step: a second, or a whole time-to-live
TickSteps == {1, cache_ttl}
\* Python's None where a context is expected: a value that no dict equals
NoneContext == <<(<<NoneAgent, << >>>>)>>
\* payloads of the cache specification: the same two fields inserted in
\* either order, and a payload with another input text
PayloadQ == <<(<<"input_text", <<"q">>>>), (<<"session_id", <<"s">>>>)>>
PayloadQReordered == <<(<<"session_id", <<"s">>>>), (<<"input_text", <<"q">>>>)>>
PayloadR == <<(<<"input_text", <<"r">>>>), (<<"session_id", <<"s">>>>)>>
\* a context of the cache specification
ContextS == <<(<<"session_id", <<"s">>>>)>>
\* the (agent_id, payload, context) triples of the cache specification: one
\* request, the same request with its payload fields reordered, requests that
\* differ from it in the agent, in the payload, in the context, and the
\* request without a context
Triples ==
    ({"A"} \X {PayloadQ, PayloadQReordered, PayloadR} \X {ContextS})
        \cup ({"B"} \X {PayloadQ} \X {ContextS})
        \cup ({"A"} \X {PayloadQ} \X {<< >>, NoneContext})
\* the responses put in the cache specification
Responses ==
    {[agent_id |-> "A", output |-> <<"x">>, timestamp |-> 0],
     [agent_id |-> "A", output |-> <<"y">>, timestamp |-> 0]}

(***************************************************************************)
(* Python dict: insertion-ordered sequence of <<key, value>> pairs.        *)
(***************************************************************************)
DictHas(d, k) ==
    \E i \in DOMAIN d : d[i][1] = k

DictIdx(d, k) ==
    CHOOSE i \in DOMAIN d : d[i][1] = k

\* d.get(k, default)
DictGet(d, k, default) ==
    IF DictHas(d, k) THEN d[DictIdx(d, k)][2] ELSE default

\* d[k] = v : an existing key keeps its position, a new key is appended
DictSet(d, k, v) ==
    IF DictHas(d, k)
    THEN [d EXCEPT ![DictIdx(d, k)] = <<k, v>>]
    ELSE Append(d, <<k, v>>)

\* del d[k]
DictDel(d, k) ==
    SelectSeq(d, LAMBDA e : e[1] # k)

\* list(d.keys())
DictKeys(d) ==
    [i \in DOMAIN d |-> d[i][1]]

RECURSIVE SumValues(_)
\* sum(counts.values())
SumValues(d) ==
    IF d = << >> THEN 0 ELSE d[1][2] + SumValues(Tail(d))

(***************************************************************************)
(* PredictiveRouter (src/src/router.py).                                   *)
(* A table is a dict from_agent -> Counter, a Counter a dict to_agent ->   *)
(* count.                                                                  *)
(***************************************************************************)
\* self._transitions[from_agent][to_agent] += 1 : the defaultdict creates the
\* missing Counter, the Counter reads a missing key as 0
record_transition(tr, from_agent, to_agent) ==
    LET counts == DictGet(tr, from_agent, << >>)
    IN  DictSet(tr, from_agent,
                DictSet(counts, to_agent, DictGet(counts, to_agent, 0) + 1))

RECURSIVE ingest_trace_short(_, _)
\* ingest_trace with the loop one pair short: for i in range(len(seq) - 2)
ingest_trace_short(tr, agent_sequence) ==
    IF Len(agent_sequence) < 3
    THEN tr
    ELSE ingest_trace_short(record_transition(tr, agent_sequence[1], agent_sequence[2]),
                            Tail(agent_sequence))

RECURSIVE ingest_trace(_, _)
\* for i in range(len(seq) - 1): record_transition(seq[i], seq[i + 1])
ingest_trace(tr, agent_sequence) ==
    IF Len(agent_sequence) < 2
    THEN tr
    ELSE ingest_trace(record_transition(tr, agent_sequence[1], agent_sequence[2]),
                      Tail(agent_sequence))

\* most_common(1) taking the last item of maximal count
most_common_last(counts) ==
    counts[CHOOSE i \in DOMAIN counts :
               /\ \A j \in DOMAIN counts : counts[j][2] <= counts[i][2]
               /\ \A j \in DOMAIN counts : j > i => counts[j][2] < counts[i][2]]

\* counts.most_common(1)[0] : max() over the items in insertion order, so the
\* first item of maximal count
most_common_1(counts) ==
    counts[CHOOSE i \in DOMAIN counts :
               /\ \A j \in DOMAIN counts : counts[j][2] <= counts[i][2]
               /\ \A j \in DOMAIN counts : j < i => counts[j][2] < counts[i][2]]

\* predict_next with a strict threshold test: confidence > prediction_threshold
predict_next_strict(tr, current_agent, threshold) ==
    LET counts == DictGet(tr, current_agent, << >>)
        total == SumValues(counts)
        best == most_common_1(counts)
    IN  IF counts = << >>
        THEN [agent |-> NoneAgent, confidence |-> Zero]
        ELSE IF best[2] * threshold[2] > threshold[1] * total
             THEN [agent |-> best[1], confidence |-> <<best[2], total>>]
             ELSE [agent |-> NoneAgent, confidence |-> <<best[2], total>>]

RECURSIVE SumAll(_)
\* the observations of the whole table
SumAll(tr) ==
    IF tr = << >> THEN 0 ELSE SumValues(tr[1][2]) + SumAll(Tail(tr))

\* predict_next dividing by the observations of the whole table instead of
\* those of the agent's own row
predict_next_all_rows(tr, current_agent, threshold) ==
    LET counts == DictGet(tr, current_agent, << >>)
        total == SumAll(tr)
        best == most_common_1(counts)
    IN  IF counts = << >>
        THEN [agent |-> NoneAgent, confidence |-> Zero]
        ELSE IF best[2] * threshold[2] >= threshold[1] * total
             THEN [agent |-> best[1], confidence |-> <<best[2], total>>]
             ELSE [agent |-> NoneAgent, confidence |-> <<best[2], total>>]

\* predict_next: (None, 0.0) when the agent has no counts, else the most common
\* target with confidence best_count / total, accepted when
\* confidence >= prediction_threshold
predict_next(tr, current_agent, threshold) ==
    LET counts == DictGet(tr, current_agent, << >>)
        total == SumValues(counts)
        best == most_common_1(counts)
    IN  IF counts = << >>
        THEN [agent |-> NoneAgent, confidence |-> Zero]
        ELSE IF best[2] * threshold[2] >= threshold[1] * total
             THEN [agent |-> best[1], confidence |-> <<best[2], total>>]
             ELSE [agent |-> NoneAgent, confidence |-> <<best[2], total>>]

\* should_preload: agent_id if agent_id else None (the empty string is falsy)
should_preload(tr, current_agent, threshold) ==
    LET agent_id == predict_next(tr, current_agent, threshold).agent
    IN  IF agent_id # NoneAgent /\ agent_id # "" THEN agent_id ELSE NoneAgent

\* the table after self._transitions[current_agent]: the defaultdict inserts an
\* empty Counter for a missing key
transitions_getitem(tr, current_agent) ==
    IF DictHas(tr, current_agent) THEN tr ELSE DictSet(tr, current_agent, << >>)

\* the table after self._transitions.get(current_agent): dict.get does not call
\* the default factory, so a missing key is not inserted
transitions_get(tr, current_agent) ==
    tr

RECURSIVE SumLen(_)
\* sum(len(v) for v in self._transitions.values())
SumLen(tr) ==
    IF tr = << >> THEN 0 ELSE Len(tr[1][2]) + SumLen(Tail(tr))

\* stats counting the source agents instead of the (from, to) pairs
stats_rows(tr, total) ==
    [total_traces |-> total, known_agents |-> DictKeys(tr), transition_pairs |-> Len(tr)]

\* stats()
stats(tr, total) ==
    [total_traces |-> total, known_agents |-> DictKeys(tr), transition_pairs |-> SumLen(tr)]

(***************************************************************************)
(* AgentResponseCache (src/src/cache.py) and its Redis store.              *)
(***************************************************************************)
\* json.dumps without sort_keys: the items in insertion order
json_insertion_order(d) ==
    {<<k, d[k]>> : k \in DOMAIN d}

\* json.dumps(..., sort_keys=True) of a dict: the text is fixed by the set of
\* its items, whatever order they were inserted in
Canon(d) ==
    {d[k] : k \in DOMAIN d}

\* context or {}
or_empty(context) ==
    IF context = NoneContext \/ context = << >> THEN << >> ELSE context

\* _build_key: sha256 of the canonical JSON of the triple, with `context or {}`
\* for the context. The digest is modelled as injective (no collisions): the
\* key is the canonical triple.
build_key(agent_id, payload, context) ==
    [agent_id |-> agent_id, payload |-> Canon(payload),
     context |-> Canon(or_empty(context))]

\* json.dumps(response): the stored text
json_dumps(response) ==
    <<"json", response>>

\* json.loads(cached)
json_loads(text) ==
    text[2]

\* redis GET: the value of a key that is present and has not expired, else None
NoneValue == <<"nil">>
redis_get(st, key, time) ==
    IF key \in DOMAIN st /\ time < st[key].expires THEN st[key].value ELSE NoneValue

\* SET key value EX ttl NX: an entry that has not expired is kept
redis_set_nx(st, key, ttl, value, time) ==
    [k \in DOMAIN st \cup {key} |->
        IF k = key /\ ~(key \in DOMAIN st /\ time < st[key].expires)
        THEN [value |-> value, expires |-> time + ttl]
        ELSE st[k]]

\* redis SETEX key ttl value: replaces the entry and its expiry
redis_setex(st, key, ttl, value, time) ==
    [k \in DOMAIN st \cup {key} |->
        IF k = key THEN [value |-> value, expires |-> time + ttl] ELSE st[k]]

\* hit_rate: hits / total if total > 0 else 0.0
hit_rate(h, m) ==
    IF h + m > 0 THEN <<h, h + m>> ELSE Zero

(***************************************************************************)
(* BedrockAgentOptimizer (src/src/agent_wrapper.py).                       *)
(***************************************************************************)
DigitChar == <<"0", "1", "2", "3", "4", "5", "6", "7", "8", "9">>

RECURSIVE Digits(_)
\* str(n) of a non-negative int, as its sequence of digits
Digits(n) ==
    IF n < 10 THEN <<DigitChar[n + 1]>>
    ELSE Append(Digits(n \div 10), DigitChar[(n % 10) + 1])

\* f"chain-{int(time.time())}"
session_of(time) ==
    <<"chain-">> \o Digits(time)

\* the remote agent: the concatenated chunks of invoke_agent's completion, a
\* function of the agent and of the input text that tells every pair apart
completion_of(agent_id, text) ==
    <<agent_id>> \o text

\* {"input_text": current_input, "session_id": context["session_id"]}
payload_of(text, ctx) ==
    <<(<<"input_text", text>>), (<<"session_id", DictGet(ctx, "session_id", << >>)>>)>>

(***************************************************************************)
(* State.                                                                  *)
(***************************************************************************)
VARIABLES
    transitions,            \* PredictiveRouter._transitions
    total_traces,           \* PredictiveRouter._total_traces
    prediction_threshold,   \* OptimizerConfig.prediction_threshold
    returned,               \* what the last call of the router specification's
                            \* caller returned
    store,                  \* the Redis store: key -> [value, expires]
    hits,                   \* AgentResponseCache._hits
    misses,                 \* AgentResponseCache._misses
    now,                    \* int(time.time()), in seconds
    tasks,                  \* the executor's preload tasks, in submission order
                            \* (history: each with the run that submitted it)
    preloaded,              \* BedrockAgentOptimizer._preloaded: agent -> task
    pc,                     \* where run_chain stands
    agent_ids,              \* run_chain's agent_ids
    input_text,             \* run_chain's input_text
    context,                \* run_chain's context
    i,                      \* run_chain's loop index (from 0)
    current_input,          \* run_chain's current_input
    result,                 \* _invoke_agent's result before it is cached
    results,                \* run_chain's results
    err,                    \* the exception run_chain raised to its caller
    ticks,                  \* history: clock steps taken
    getCalls,               \* history: calls of AgentResponseCache.get
    history,                \* history: the runs started, in order
    threads,                \* the callers of the concurrent specification
    recCalls,               \* history: record_transition calls made, per pair
    seen,                   \* history: the (from, to) pairs a sequential caller
                            \* recorded, in the order of their first recording
    calls                   \* history: the calls made to AgentResponseCache by
                            \* the caller of the cache specification, in order

routerVars == <<transitions, total_traces, prediction_threshold, returned>>

cacheVars == <<store, hits, misses, getCalls>>

clockVars == <<now, ticks>>

poolVars == <<tasks, preloaded>>

chainVars == <<pc, agent_ids, input_text, context, i, current_input, result, results,
               err, history>>

concVars == <<threads, recCalls>>

logVars == <<seen, calls>>

vars == <<routerVars, cacheVars, clockVars, poolVars, chainVars, concVars, logVars>>

NoReturn == [op |-> "none", arg |-> NoneAgent, agent |-> NoneAgent, confidence |-> Zero]

\* no step index
NoStep == -1

NoError == [raised_by |-> "none", agent_id |-> NoneAgent, step |-> NoStep]

NoResult == [agent_id |-> NoneAgent, output |-> << >>, timestamp |-> 0]

\* a caller that is in no router call
IdleThread == [pc |-> "idle", from_agent |-> NoneAgent, to_agent |-> NoneAgent, value |-> 0]

\* the state after BedrockAgentOptimizer.__init__, before any call
InitIdle ==
    /\ transitions = << >>
    /\ total_traces = 0
    /\ returned = NoReturn
    /\ store = << >>
    /\ hits = 0
    /\ misses = 0
    /\ now = 0
    /\ tasks = << >>
    /\ preloaded = << >>
    /\ pc = "idle"
    /\ agent_ids = << >>
    /\ input_text = << >>
    /\ context = << >>
    /\ i = 0
    /\ current_input = << >>
    /\ result = NoResult
    /\ results = << >>
    /\ err = NoError
    /\ ticks = 0
    /\ getCalls = 0
    /\ history = << >>
    /\ threads = [t \in ThreadIds |-> IdleThread]
    /\ recCalls = [pair \in ConcAgents \X ConcAgents |-> 0]
    /\ seen = << >>
    /\ calls = << >>

(***************************************************************************)
(* Router specification: one caller using a router sequentially.           *)
(***************************************************************************)
\* history: the log of first recordings after record_transition(from, to)
Noted(log, from_agent, to_agent) ==
    IF \E k \in DOMAIN log : log[k] = <<from_agent, to_agent>>
    THEN log
    ELSE Append(log, <<from_agent, to_agent>>)

RECURSIVE NotedAll(_, _, _)
\* history: the log after the recordings of ingest_trace, pair k onwards
NotedAll(log, agent_sequence, k) ==
    IF k >= Len(agent_sequence)
    THEN log
    ELSE NotedAll(Noted(log, agent_sequence[k], agent_sequence[k + 1]),
                  agent_sequence, k + 1)

Traces ==
    {s \in UNION {[1..n -> RouterAgents] : n \in 0..MaxTraceLen} :
        \A k \in DOMAIN s : k < Len(s) => s[k] \in RouterSources}

InitRouter ==
    /\ InitIdle
    /\ prediction_threshold \in Thresholds

\* record_transition(from_agent, to_agent)
RecordTransition(from_agent, to_agent) ==
    /\ total_traces < MaxObs
    /\ transitions' = record_transition(transitions, from_agent, to_agent)
    /\ total_traces' = total_traces + 1
    /\ returned' = [NoReturn EXCEPT !.op = "record_transition"]
    /\ UNCHANGED prediction_threshold
    /\ UNCHANGED <<cacheVars, clockVars, concVars, poolVars, chainVars>>
    /\ seen' = Noted(seen, from_agent, to_agent)
    /\ UNCHANGED calls

\* ingest_trace(agent_sequence)
IngestTrace(agent_sequence) ==
    /\ total_traces + Len(agent_sequence) - 1 <= MaxObs
    /\ transitions' = ingest_trace(transitions, agent_sequence)
    /\ total_traces' = total_traces + (IF Len(agent_sequence) < 2 THEN 0
                                       ELSE Len(agent_sequence) - 1)
    /\ returned' = [NoReturn EXCEPT !.op = "ingest_trace"]
    /\ UNCHANGED prediction_threshold
    /\ UNCHANGED <<cacheVars, clockVars, concVars, poolVars, chainVars>>
    /\ seen' = NotedAll(seen, agent_sequence, 1)
    /\ UNCHANGED calls

\* predict_next(current_agent)
PredictNext(current_agent) ==
    /\ returned' = [op |-> "predict_next", arg |-> current_agent] @@
                   predict_next(transitions, current_agent, prediction_threshold)
    /\ transitions' = transitions_get(transitions, current_agent)
    /\ UNCHANGED <<total_traces, prediction_threshold>>
    /\ UNCHANGED <<cacheVars, clockVars, concVars, poolVars, chainVars>>
    /\ UNCHANGED logVars

\* should_preload(current_agent)
ShouldPreload(current_agent) ==
    /\ returned' = [op |-> "should_preload", arg |-> current_agent,
                    agent |-> should_preload(transitions, current_agent,
                                             prediction_threshold),
                    confidence |-> Zero]
    /\ transitions' = transitions_get(transitions, current_agent)
    /\ UNCHANGED <<total_traces, prediction_threshold>>
    /\ UNCHANGED <<cacheVars, clockVars, concVars, poolVars, chainVars>>
    /\ UNCHANGED logVars

\* stats()
Stats ==
    /\ returned' = [NoReturn EXCEPT !.op = "stats"] @@ stats(transitions, total_traces)
    /\ UNCHANGED <<transitions, total_traces, prediction_threshold>>
    /\ UNCHANGED <<cacheVars, clockVars, concVars, poolVars, chainVars>>
    /\ UNCHANGED logVars

NextRouter ==
    \/ \E f \in RouterSources, t \in RouterAgents : RecordTransition(f, t)
    \/ \E s \in Traces : IngestTrace(s)
    \/ \E a \in RouterAgents \cup {UnseenAgent} : PredictNext(a)
    \/ \E a \in RouterAgents \cup {UnseenAgent} : ShouldPreload(a)
    \/ Stats

SpecRouter == InitRouter /\ [][NextRouter]_vars

(***************************************************************************)
(* Orchestrator specification: one caller running chains one after the     *)
(* other on one BedrockAgentOptimizer, the executor's preload tasks        *)
(* running beside it, the clock advancing, and the two collaborators       *)
(* (Redis, the Bedrock runtime) free to fail on any call.                  *)
(***************************************************************************)
Chains ==
    UNION {[1..n -> ChainAgents] : n \in 1..MaxChainLen}

Init ==
    /\ InitIdle
    /\ prediction_threshold \in ChainThresholds

\* the agent of the current step
Agent == agent_ids[i + 1]

\* the current step's payload
Payload == payload_of(current_input, context)

\* the current step's cache key
Key == build_key(Agent, Payload, context)

\* history: the entry of the run in progress, updated
Logged(entry) == [history EXCEPT ![Len(history)] = entry]

ThisRun == history[Len(history)]

\* run_chain is called: results, current_input and context are set up
StartChain(chain, text) ==
    /\ pc \in {"idle", "done", "failed"}
    /\ Len(history) < MaxRuns
    /\ agent_ids' = chain
    /\ input_text' = text
    /\ results' = << >>
    /\ current_input' = text
    /\ context' = <<(<<"session_id", session_of(now)>>)>>
    /\ i' = 0
    /\ result' = NoResult
    /\ err' = NoError
    /\ pc' = "join"
    /\ history' = Append(history, [agent_ids |-> chain, input_text |-> text,
                                   started |-> now, outcome |-> "running",
                                   invocations |-> 0])
    /\ UNCHANGED <<routerVars, cacheVars, clockVars, concVars, poolVars>>
    /\ UNCHANGED logVars

\* whether result(timeout=1) on the agent's handle runs into its timeout: the
\* task behind the handle has not finished
JoinTimesOut ==
    /\ DictHas(preloaded, Agent)
    /\ tasks[DictGet(preloaded, Agent, 0)].state = "running"

\* the join of a handle that makes an unfinished preload fatal (the try/except
\* around result(timeout=1) left out)
JoinPreloadUnguarded ==
    /\ pc = "join"
    /\ preloaded' = DictDel(preloaded, Agent)
    /\ IF JoinTimesOut
       THEN /\ now' = now + 1
            /\ pc' = "failed"
            /\ err' = [raised_by |-> "preload", agent_id |-> NoneAgent, step |-> NoStep]
            /\ history' = Logged([ThisRun EXCEPT !.outcome = "failed"])
       ELSE /\ pc' = "get"
            /\ UNCHANGED <<now, err, history>>
    /\ UNCHANGED <<routerVars, cacheVars, ticks, concVars, tasks>>
    /\ UNCHANGED <<agent_ids, input_text, context, i, current_input, result, results>>
    /\ UNCHANGED logVars

\* the join of a handle without a timeout: result() returns only when the
\* preload has finished
JoinPreloadBlocking ==
    /\ pc = "join"
    /\ ~JoinTimesOut
    /\ preloaded' = DictDel(preloaded, Agent)
    /\ pc' = "get"
    /\ UNCHANGED <<routerVars, cacheVars, clockVars, concVars, tasks>>
    /\ UNCHANGED <<agent_ids, input_text, context, i, current_input, result, results,
                   err, history>>
    /\ UNCHANGED logVars

\* the head of a step: the payload is built; a handle registered for this
\* agent is joined with result(timeout=1), which returns at once when the task
\* has finished and otherwise raises TimeoutError after a second; whatever it
\* raises is swallowed, and the handle is deleted
JoinPreload ==
    /\ pc = "join"
    /\ now' = IF JoinTimesOut THEN now + 1 ELSE now
    /\ preloaded' = DictDel(preloaded, Agent)
    /\ pc' = "get"
    /\ UNCHANGED <<routerVars, cacheVars, ticks, concVars, tasks>>
    /\ UNCHANGED <<agent_ids, input_text, context, i, current_input, result, results,
                   err, history>>
    /\ UNCHANGED logVars

\* cache.get finds the key: a hit is counted, the stored text is parsed and
\* _invoke_agent returns it; run_chain appends it and feeds its output forward
CacheGetHit ==
    /\ pc = "get"
    /\ redis_get(store, Key, now) # NoneValue
    /\ hits' = hits + 1
    /\ getCalls' = getCalls + 1
    /\ LET cached == json_loads(redis_get(store, Key, now))
       IN  /\ results' = Append(results, cached)
           /\ current_input' = cached.output
    /\ pc' = "record"
    /\ UNCHANGED <<routerVars, store, misses, clockVars, concVars, poolVars>>
    /\ UNCHANGED <<agent_ids, input_text, context, i, result, err, history>>
    /\ UNCHANGED logVars

\* cache.get finds nothing: a miss is counted and None returned
CacheGetMiss ==
    /\ pc = "get"
    /\ redis_get(store, Key, now) = NoneValue
    /\ misses' = misses + 1
    /\ getCalls' = getCalls + 1
    /\ pc' = "invoke"
    /\ UNCHANGED <<routerVars, store, hits, clockVars, concVars, poolVars>>
    /\ UNCHANGED <<agent_ids, input_text, context, i, current_input, result, results,
                   err, history>>
    /\ UNCHANGED logVars

\* the store cannot be reached: client.get raises, and neither get, nor
\* _invoke_agent, nor run_chain catches it
CacheGetRaises ==
    /\ pc = "get"
    /\ getCalls' = getCalls + 1
    /\ pc' = "failed"
    /\ err' = [raised_by |-> "redis.get", agent_id |-> NoneAgent, step |-> NoStep]
    /\ history' = Logged([ThisRun EXCEPT !.outcome = "failed"])
    /\ UNCHANGED <<routerVars, store, hits, misses, clockVars, concVars, poolVars>>
    /\ UNCHANGED <<agent_ids, input_text, context, i, current_input, result, results>>
    /\ UNCHANGED logVars

\* the required invocation returns: the chunks are concatenated into the result
InvokeAgentReturns ==
    /\ pc = "invoke"
    /\ result' = [agent_id |-> Agent,
                  output |-> completion_of(Agent, DictGet(Payload, "input_text", << >>)),
                  timestamp |-> now]
    /\ history' = Logged([ThisRun EXCEPT !.invocations = @ + 1])
    /\ pc' = "put"
    /\ UNCHANGED <<routerVars, cacheVars, clockVars, concVars, poolVars>>
    /\ UNCHANGED <<agent_ids, input_text, context, i, current_input, results, err>>
    /\ UNCHANGED logVars

\* the required invocation raises: nothing catches it, so the caller gets the
\* runtime's own exception, which may or may not name the agent and cannot
\* name the step
InvokeAgentRaises ==
    /\ pc = "invoke"
    /\ \E named \in {NoneAgent, Agent} :
           err' = [raised_by |-> "invoke_agent", agent_id |-> named, step |-> NoStep]
    /\ history' = Logged([ThisRun EXCEPT !.invocations = @ + 1,
                                         !.outcome = "failed"])
    /\ pc' = "failed"
    /\ UNCHANGED <<routerVars, cacheVars, clockVars, concVars, poolVars>>
    /\ UNCHANGED <<agent_ids, input_text, context, i, current_input, result, results>>
    /\ UNCHANGED logVars

\* cache.put stores the result for cache_ttl seconds; _invoke_agent returns it;
\* run_chain appends it and feeds its output forward
CachePutReturns ==
    /\ pc = "put"
    /\ store' = redis_setex(store, Key, cache_ttl, json_dumps(result), now)
    /\ results' = Append(results, result)
    /\ current_input' = result.output
    /\ pc' = "record"
    /\ UNCHANGED <<routerVars, hits, misses, getCalls, clockVars, concVars, poolVars>>
    /\ UNCHANGED <<agent_ids, input_text, context, i, result, err, history>>
    /\ UNCHANGED logVars

\* the store cannot be reached: client.setex raises, and nothing catches it
CachePutRaises ==
    /\ pc = "put"
    /\ pc' = "failed"
    /\ err' = [raised_by |-> "redis.setex", agent_id |-> NoneAgent, step |-> NoStep]
    /\ history' = Logged([ThisRun EXCEPT !.outcome = "failed"])
    /\ UNCHANGED <<routerVars, cacheVars, clockVars, concVars, poolVars>>
    /\ UNCHANGED <<agent_ids, input_text, context, i, current_input, result, results>>
    /\ UNCHANGED logVars

\* the step goes on to the preload decision with the transition not recorded
RecordStepAfterDecision ==
    /\ pc = "record"
    /\ i < Len(agent_ids) - 1
    /\ pc' = "predict"
    /\ UNCHANGED <<routerVars, cacheVars, clockVars, concVars, poolVars, logVars>>
    /\ UNCHANGED <<agent_ids, input_text, context, i, current_input, result, results,
                   err, history>>

\* not the final step: router.record_transition(agent_id, agent_ids[i + 1])
RecordStep ==
    /\ pc = "record"
    /\ i < Len(agent_ids) - 1
    /\ transitions' = record_transition(transitions, Agent, agent_ids[i + 2])
    /\ total_traces' = total_traces + 1
    /\ pc' = "predict"
    /\ UNCHANGED <<prediction_threshold, returned, cacheVars, clockVars, concVars, poolVars>>
    /\ UNCHANGED <<agent_ids, input_text, context, i, current_input, result, results,
                   err, history>>
    /\ seen' = Noted(seen, Agent, agent_ids[i + 2])
    /\ UNCHANGED calls

\* router.should_preload(agent_id); a predicted agent gets a preload task
\* submitted to the executor and its future stored in _preloaded, over any
\* future already stored for that agent; then the next step begins
PreloadDecision ==
    /\ pc = "predict"
    /\ LET predicted == should_preload(transitions, Agent, prediction_threshold)
       IN  IF predicted # NoneAgent
           THEN /\ tasks' = Append(tasks, [agent_id |-> predicted, state |-> "running",
                                           probe |-> "none", run |-> Len(history)])
                /\ preloaded' = DictSet(preloaded, predicted, Len(tasks) + 1)
           ELSE UNCHANGED <<tasks, preloaded>>
    /\ i' = i + 1
    /\ pc' = "join"
    /\ UNCHANGED <<routerVars, cacheVars, clockVars, concVars>>
    /\ UNCHANGED <<agent_ids, input_text, context, current_input, result, results,
                   err, history>>
    /\ UNCHANGED logVars

\* the final step is done: run_chain returns results
ReturnResults ==
    /\ pc = "record"
    /\ i = Len(agent_ids) - 1
    /\ pc' = "done"
    /\ history' = Logged([ThisRun EXCEPT !.outcome = "returned"])
    /\ UNCHANGED <<routerVars, cacheVars, clockVars, concVars, poolVars>>
    /\ UNCHANGED <<agent_ids, input_text, context, i, current_input, result, results, err>>
    /\ UNCHANGED logVars

\* _preload_context in a worker: the probe returns
ProbeReturns(t) ==
    /\ tasks[t].state = "running"
    /\ tasks' = [tasks EXCEPT ![t].state = "finished", ![t].probe = "ok"]
    /\ UNCHANGED <<routerVars, cacheVars, clockVars, concVars, preloaded, chainVars>>
    /\ UNCHANGED logVars

\* _preload_context in a worker: the probe raises, the exception is logged
\* and swallowed, and the task ends
ProbeRaises(t) ==
    /\ tasks[t].state = "running"
    /\ tasks' = [tasks EXCEPT ![t].state = "finished", ![t].probe = "failed"]
    /\ UNCHANGED <<routerVars, cacheVars, clockVars, concVars, preloaded, chainVars>>
    /\ UNCHANGED logVars

\* time passes
Tick(d) ==
    /\ ticks < MaxTicks
    /\ now' = now + d
    /\ ticks' = ticks + 1
    /\ UNCHANGED <<routerVars, cacheVars, poolVars, chainVars, concVars>>
    /\ UNCHANGED logVars

\* the steps of the thread that runs run_chain
ChainStep ==
    \/ JoinPreload
    \/ CacheGetHit
    \/ CacheGetMiss
    \/ CacheGetRaises
    \/ InvokeAgentReturns
    \/ InvokeAgentRaises
    \/ CachePutReturns
    \/ CachePutRaises
    \/ RecordStep
    \/ PreloadDecision
    \/ ReturnResults

Next ==
    \/ \E chain \in Chains, text \in Inputs : StartChain(chain, text)
    \/ ChainStep
    \/ \E t \in DOMAIN tasks : ProbeReturns(t)
    \/ \E t \in DOMAIN tasks : ProbeRaises(t)
    \/ \E d \in TickSteps : Tick(d)

Spec == Init /\ [][Next]_vars

\* the traces of earlier chain executions the router is seeded with
SeedTraces == <<(<<"A", "B">>), (<<"A", "B">>), (<<"A", "B">>)>>

RECURSIVE IngestAll(_, _)
\* the table after ingest_trace of each trace in turn
IngestAll(tr, traces) ==
    IF traces = << >> THEN tr
    ELSE IngestAll(ingest_trace(tr, traces[1]), Tail(traces))

\* the state after construction and after router.ingest_trace has seeded the
\* router from the historical traces
InitSeeded ==
    /\ transitions = IngestAll(<< >>, SeedTraces)
    /\ total_traces = Len(SeedTraces)
    /\ seen = <<(<<"A", "B">>)>>
    /\ prediction_threshold \in ChainThresholds
    /\ returned = NoReturn
    /\ store = << >>
    /\ hits = 0
    /\ misses = 0
    /\ now = 0
    /\ tasks = << >>
    /\ preloaded = << >>
    /\ pc = "idle"
    /\ agent_ids = << >>
    /\ input_text = << >>
    /\ context = << >>
    /\ i = 0
    /\ current_input = << >>
    /\ result = NoResult
    /\ results = << >>
    /\ err = NoError
    /\ ticks = 0
    /\ getCalls = 0
    /\ history = << >>
    /\ threads = [t \in ThreadIds |-> IdleThread]
    /\ recCalls = [pair \in ConcAgents \X ConcAgents |-> 0]
    /\ calls = << >>

\* the orchestrator specification on a router seeded from historical traces
SpecSeeded == InitSeeded /\ [][Next]_vars

\* the orchestrator specification with the scheduling the interpreter gives
\* the thread that runs run_chain: it is not starved, and each call it makes
\* to Redis or to the runtime comes back (returns or raises). Nothing is
\* assumed of the preload tasks, which may never finish.
SpecFair == Init /\ [][Next]_vars /\ WF_vars(ChainStep)

(***************************************************************************)
(* Concurrent specification: several chain runs on one shared router, each *)
(* reduced to its record_transition calls. The statement                   *)
(*     self._transitions[from_agent][to_agent] += 1                        *)
(* takes no lock: it reads the count and writes it back in two steps, and  *)
(* so does self._total_traces += 1; another thread may run in between.     *)
(***************************************************************************)
InitConc ==
    /\ InitIdle
    /\ prediction_threshold \in ChainThresholds

CallsMade ==
    LET RECURSIVE Total(_)
        Total(pairs) == IF pairs = {} THEN 0
                        ELSE LET q == CHOOSE x \in pairs : TRUE
                             IN  recCalls[q] + Total(pairs \ {q})
    IN  Total(DOMAIN recCalls)

\* thread t calls record_transition(from_agent, to_agent)
CallRecord(t, from_agent, to_agent) ==
    /\ threads[t].pc = "idle"
    /\ CallsMade < MaxCalls
    /\ threads' = [threads EXCEPT ![t] = [pc |-> "load", from_agent |-> from_agent,
                                          to_agent |-> to_agent, value |-> 0]]
    /\ recCalls' = [recCalls EXCEPT ![<<from_agent, to_agent>>] = @ + 1]
    /\ UNCHANGED <<routerVars, cacheVars, clockVars, poolVars, chainVars>>
    /\ UNCHANGED logVars

\* self._transitions[from_agent][to_agent] is read: the defaultdict creates a
\* missing Counter, the Counter reads a missing key as 0
LoadCount(t) ==
    /\ threads[t].pc = "load"
    /\ transitions' = IF DictHas(transitions, threads[t].from_agent)
                      THEN transitions
                      ELSE DictSet(transitions, threads[t].from_agent, << >>)
    /\ threads' = [threads EXCEPT
                      ![t].value = DictGet(DictGet(transitions, threads[t].from_agent, << >>),
                                           threads[t].to_agent, 0),
                      ![t].pc = "store"]
    /\ UNCHANGED <<total_traces, prediction_threshold, returned, recCalls>>
    /\ UNCHANGED <<cacheVars, clockVars, poolVars, chainVars>>
    /\ UNCHANGED logVars

\* the count read, plus one, is written back
StoreCount(t) ==
    /\ threads[t].pc = "store"
    /\ transitions' = DictSet(transitions, threads[t].from_agent,
                              DictSet(DictGet(transitions, threads[t].from_agent, << >>),
                                      threads[t].to_agent, threads[t].value + 1))
    /\ threads' = [threads EXCEPT ![t].pc = "load_total"]
    /\ UNCHANGED <<total_traces, prediction_threshold, returned, recCalls>>
    /\ UNCHANGED <<cacheVars, clockVars, poolVars, chainVars>>
    /\ UNCHANGED logVars

\* self._total_traces is read
LoadTotal(t) ==
    /\ threads[t].pc = "load_total"
    /\ threads' = [threads EXCEPT ![t].value = total_traces, ![t].pc = "store_total"]
    /\ UNCHANGED <<routerVars, recCalls, cacheVars, clockVars, poolVars, chainVars>>
    /\ UNCHANGED logVars

\* the total read, plus one, is written back, and record_transition returns
StoreTotal(t) ==
    /\ threads[t].pc = "store_total"
    /\ total_traces' = threads[t].value + 1
    /\ threads' = [threads EXCEPT ![t] = IdleThread]
    /\ UNCHANGED <<transitions, prediction_threshold, returned, recCalls>>
    /\ UNCHANGED <<cacheVars, clockVars, poolVars, chainVars>>
    /\ UNCHANGED logVars

NextConc ==
    \/ \E t \in ThreadIds, f \in ConcAgents, to \in ConcAgents : CallRecord(t, f, to)
    \/ \E t \in ThreadIds : LoadCount(t)
    \/ \E t \in ThreadIds : StoreCount(t)
    \/ \E t \in ThreadIds : LoadTotal(t)
    \/ \E t \in ThreadIds : StoreTotal(t)

SpecConc == InitConc /\ [][NextConc]_vars

(***************************************************************************)
(* Cache specification: one caller using an AgentResponseCache directly,   *)
(* the clock advancing between its calls. The store answers every call.    *)
(***************************************************************************)
InitCache ==
    /\ InitIdle
    /\ prediction_threshold \in ChainThresholds

\* get(agent_id, payload, context)
CacheGet(agent_id, payload, ctx) ==
    /\ Len(calls) < MaxCacheCalls
    /\ LET key == build_key(agent_id, payload, ctx)
           cached == redis_get(store, key, now)
           hit == cached # NoneValue
       IN  /\ hits' = IF hit THEN hits + 1 ELSE hits
           /\ misses' = IF hit THEN misses ELSE misses + 1
           /\ calls' = Append(calls,
                  [op |-> "get", agent_id |-> agent_id, payload |-> payload,
                   context |-> ctx, response |-> NoResult, key |-> key, at |-> now,
                   returned |-> IF hit THEN json_loads(cached) ELSE NoResult,
                   hits |-> hits', misses |-> misses'])
    /\ getCalls' = getCalls + 1
    /\ UNCHANGED <<store, seen>>
    /\ UNCHANGED <<routerVars, clockVars, poolVars, chainVars, concVars>>

\* put(agent_id, payload, response, context)
CachePut(agent_id, payload, response, ctx) ==
    /\ Len(calls) < MaxCacheCalls
    /\ LET key == build_key(agent_id, payload, ctx)
       IN  /\ store' = redis_setex(store, key, cache_ttl, json_dumps(response), now)
           /\ calls' = Append(calls,
                  [op |-> "put", agent_id |-> agent_id, payload |-> payload,
                   context |-> ctx, response |-> response, key |-> key, at |-> now,
                   returned |-> NoResult, hits |-> hits, misses |-> misses])
    /\ UNCHANGED <<hits, misses, getCalls, seen>>
    /\ UNCHANGED <<routerVars, clockVars, poolVars, chainVars, concVars>>

NextCache ==
    \/ \E t \in Triples : CacheGet(t[1], t[2], t[3])
    \/ \E t \in Triples, r \in Responses : CachePut(t[1], t[2], r, t[3])
    \/ \E d \in TickSteps : Tick(d)

SpecCache == InitCache /\ [][NextCache]_vars

(***************************************************************************)
(* Claims about the orchestrator.                                          *)
(***************************************************************************)
Distinct(seq) ==
    \A j, k \in DOMAIN seq : j # k => seq[j] # seq[k]

Running == pc \in {"join", "get", "invoke", "put", "record", "predict"}

\* the preload tasks of an agent that are submitted and not finished
InFlight(agent_id) ==
    {t \in DOMAIN tasks : tasks[t].agent_id = agent_id /\ tasks[t].state = "running"}

(***************************************************************************)
(* C1: from a cold cache the first run of a chain of distinct agents makes *)
(* exactly one required invocation per step, and an identical second run   *)
(* (same agents, same input) made while every entry is unexpired makes     *)
(* none: all its steps are cache hits.                                     *)
(***************************************************************************)
C1_SecondRunAllHits ==
    /\ (/\ Len(history) >= 1
        /\ history[1].outcome = "returned"
        /\ Distinct(history[1].agent_ids))
       => history[1].invocations = Len(history[1].agent_ids)
    /\ (/\ Len(history) >= 2
        /\ history[1].outcome = "returned"
        /\ history[2].outcome = "returned"
        /\ Distinct(history[1].agent_ids)
        /\ history[2].agent_ids = history[1].agent_ids
        /\ history[2].input_text = history[1].input_text
        /\ now < history[1].started + cache_ttl)
       => history[2].invocations = 0

(***************************************************************************)
(* C2: a failure of an optional path never aborts run_chain: whenever a    *)
(* run has ended with an exception, that exception came from the required  *)
(* invocation, never from the store's get or setex or from a preload.      *)
(***************************************************************************)
C2_OptionalFailuresNeverAbort ==
    pc = "failed" => err.raised_by = "invoke_agent"

(***************************************************************************)
(* C3: at every point, for every agent, at most one preload task for that  *)
(* agent is submitted to the pool and not yet finished.                    *)
(***************************************************************************)
C3_AtMostOnePreloadInFlight ==
    \A a \in ChainAgents : Cardinality(InFlight(a)) <= 1

(***************************************************************************)
(* C5: when the required invocation of step i fails, the error run_chain   *)
(* surfaces names the failing agent and the step index i.                  *)
(***************************************************************************)
C5_FailureNamesAgentAndStep ==
    (pc = "failed" /\ err.raised_by = "invoke_agent")
        => (err.agent_id = Agent /\ err.step = i)

\* the results of a chain run with no preload at all: each agent applied to
\* the output of the one before it
RECURSIVE ReferenceOutputs(_, _)
ReferenceOutputs(chain, text) ==
    IF chain = << >> THEN << >>
    ELSE LET out == completion_of(chain[1], text)
         IN  <<[agent_id |-> chain[1], output |-> out]>>
                 \o ReferenceOutputs(Tail(chain), out)

(***************************************************************************)
(* C6: preload non-interference. Whatever the preloads do (succeed, fail,  *)
(* never finish), the agent identifiers and output texts of the results a  *)
(* run has produced are those of the chain run without any preload (each   *)
(* agent applied to the previous output), and no run ends with an error of *)
(* the preload path.                                                       *)
(***************************************************************************)
C6_PreloadNonInterference ==
    /\ pc # "idle" =>
           [k \in DOMAIN results |->
               [agent_id |-> results[k].agent_id, output |-> results[k].output]]
             = SubSeq(ReferenceOutputs(agent_ids, input_text), 1, Len(results))
    /\ pc = "done" => Len(results) = Len(agent_ids)
    /\ pc = "failed" => err.raised_by # "preload"

\* a first run returned all its results although the preload of its second
\* agent failed or never finished
C6_Witness ==
    /\ pc = "done"
    /\ Len(history) = 1
    /\ Len(results) = 2
    /\ \E t \in DOMAIN tasks : /\ tasks[t].agent_id = agent_ids[2]
                               /\ tasks[t].probe # "ok"

(***************************************************************************)
(* C7: a stalled preload never blocks the chain. Under SpecFair a run that *)
(* has started always ends (returns, or raises what a collaborator         *)
(* raised), whether or not a preload ever finishes; and the step that     *)
(* leaves the join goes on to the cache lookup with the agent's handle     *)
(* removed from the preload map.                                           *)
(***************************************************************************)
C7_StalledPreloadNeverBlocks ==
    /\ Running ~> (pc \in {"done", "failed"})
    /\ [][(pc = "join" /\ pc' # "join")
              => (pc' = "get" /\ ~DictHas(preloaded', Agent))]_vars

\* in a first run, the step of an agent is at its cache lookup, the preload of
\* that agent is still running and its handle is gone: the join timed out
C7_Witness ==
    /\ pc = "get"
    /\ Len(history) = 1
    /\ i >= 1
    /\ ~DictHas(preloaded, Agent)
    /\ InFlight(Agent) # {}

(***************************************************************************)
(* C8: cache accounting. hits + misses equals the number of get calls      *)
(* made, and hit_rate is hits / (hits + misses), 0 before any get.         *)
(***************************************************************************)
C8_CacheAccounting ==
    /\ hits + misses = getCalls
    /\ hit_rate(hits, misses) = (IF getCalls = 0 THEN Zero ELSE <<hits, hits + misses>>)

(***************************************************************************)
(* Claims about the router under concurrent callers.                       *)
(***************************************************************************)
Quiescent == \A t \in ThreadIds : threads[t].pc = "idle"

(***************************************************************************)
(* Reference quantities of the transition table, computed over the set of  *)
(* agents and not by the router's own iteration.                           *)
(***************************************************************************)
\* TransitionTable[from][to], 0 when never recorded
TableCount(from_agent, to_agent) ==
    DictGet(DictGet(transitions, from_agent, << >>), to_agent, 0)

RECURSIVE SumOver(_, _)
SumOver(from_agent, targets) ==
    IF targets = {} THEN 0
    ELSE LET t == CHOOSE x \in targets : TRUE
         IN  TableCount(from_agent, t) + SumOver(from_agent, targets \ {t})

\* sum(TransitionTable[from])
TableTotal(from_agent) ==
    SumOver(from_agent, RouterAgents)

\* the largest count of a transition out of from_agent
TableMax(from_agent) ==
    CHOOSE m \in 0..TableTotal(from_agent) :
        /\ \A t \in RouterAgents : TableCount(from_agent, t) <= m
        /\ \E t \in RouterAgents : TableCount(from_agent, t) = m

(***************************************************************************)
(* C10: predict_next(A) is (None, 0.0) when A has no recorded outgoing     *)
(* transition; otherwise its confidence is count(best)/total for a target  *)
(* best of maximal count, and it returns best exactly when that confidence *)
(* is at least the configured threshold, and None with the same confidence *)
(* otherwise. Checked for every agent in every reachable table, for every  *)
(* threshold of Thresholds.                                                *)
(***************************************************************************)
C10_PredictNextMatchesReference ==
    \A a \in RouterAgents \cup {UnseenAgent} :
        LET r == predict_next(transitions, a, prediction_threshold)
            total == TableTotal(a)
            best == TableMax(a)
            accepted == best * prediction_threshold[2] >= prediction_threshold[1] * total
        IN  IF total = 0
            THEN r = [agent |-> NoneAgent, confidence |-> Zero]
            ELSE /\ r.confidence[2] > 0
                 /\ r.confidence[1] * total = best * r.confidence[2]
                 /\ accepted => /\ r.agent \in RouterAgents
                                /\ TableCount(a, r.agent) = best
                 /\ ~accepted => r.agent = NoneAgent

\* A -> B, A -> C, A -> D recorded once each, threshold 0.7: predict_next("A")
\* returned (None, 1/3)
C10_Witness ==
    /\ prediction_threshold = <<7, 10>>
    /\ TableCount("A", "B") = 1 /\ TableCount("A", "C") = 1 /\ TableCount("A", "D") = 1
    /\ TableTotal("A") = 3
    /\ returned = [op |-> "predict_next", arg |-> "A",
                   agent |-> NoneAgent, confidence |-> <<1, 3>>]

(***************************************************************************)
(* C4: no update is lost under concurrent callers: once every call has     *)
(* finished, TransitionTable[from][to] is the number of                    *)
(* record_transition(from, to) calls made, for every pair.                 *)
(***************************************************************************)
C4_NoLostUpdate ==
    Quiescent =>
        \A pair \in DOMAIN recCalls : TableCount(pair[1], pair[2]) = recCalls[pair]

(***************************************************************************)
(* C9: for every agent A, the sum of the counts of TransitionTable[A] is   *)
(* the number of record_transition calls made so far with A as source.    *)
(***************************************************************************)
C9_RowSumEqualsCalls ==
    Quiescent =>
        \A a \in ConcAgents :
            TableTotal(a) = recCalls[<<a, "A">>] + recCalls[<<a, "B">>]

(***************************************************************************)
(* Claims about the router under one sequential caller.                    *)
(***************************************************************************)
\* record_transition(from_agent, to_agent) has been called at least once
Recorded(from_agent, to_agent) ==
    \E k \in DOMAIN seen : seen[k] = <<from_agent, to_agent>>

(***************************************************************************)
(* C11: router monotonicity. For every threshold of Thresholds: when       *)
(* record_transition(A, B) has been called k >= 1 times and no other       *)
(* transition from A has ever been recorded, predict_next(A) returns       *)
(* (B, k/k = 1.0) and should_preload(A) returns B.                         *)
(***************************************************************************)
C11_RouterMonotonicity ==
    \A a \in RouterSources, b \in RouterAgents :
        (/\ Recorded(a, b)
         /\ \A k \in DOMAIN seen : seen[k][1] = a => seen[k][2] = b)
        => LET r == predict_next(transitions, a, prediction_threshold)
               n == TableCount(a, b)
           IN  /\ n >= 1
               /\ r = [agent |-> b, confidence |-> <<n, n>>]
               /\ should_preload(transitions, a, prediction_threshold) = b

\* threshold 1.0, A -> B recorded twice and nothing else from A, B -> C
\* recorded once: predict_next("A") returned (B, 2/2)
C11_Witness ==
    /\ prediction_threshold = <<1, 1>>
    /\ TableCount("A", "B") = 2
    /\ TableTotal("A") = 2
    /\ TableCount("B", "C") = 1
    /\ returned = [op |-> "predict_next", arg |-> "A",
                   agent |-> "B", confidence |-> <<2, 2>>]

RECURSIVE RecordPairs(_, _, _)
\* the table after record_transition(seq[k], seq[k + 1]), then the same for
\* k + 1, and so on up to the last pair of seq
RecordPairs(tr, agent_sequence, k) ==
    IF k >= Len(agent_sequence)
    THEN tr
    ELSE RecordPairs(record_transition(tr, agent_sequence[k], agent_sequence[k + 1]),
                     agent_sequence, k + 1)

\* the observations held by the table, summed over every (from, to) pair
RECURSIVE TableSum(_)
TableSum(sources) ==
    IF sources = {} THEN 0
    ELSE LET a == CHOOSE x \in sources : TRUE
         IN  TableTotal(a) + TableSum(sources \ {a})

(***************************************************************************)
(* C12: every ingest_trace(seq) call has exactly the effect of the calls   *)
(* record_transition(seq[i], seq[i+1]) for i = 0 .. len(seq)-2 in order:   *)
(* it adds len(seq)-1 observations, leaves the table unchanged for         *)
(* sequences of length 0 or 1, and on an empty router ingest_trace of      *)
(* three agents [X, Y, Z] gives predict_next(X) = (Y, 1.0) and             *)
(* predict_next(Y) = (Z, 1.0). X, Y, Z name three different agents.        *)
(***************************************************************************)
C12_IngestTraceIsRecordFold ==
    [][returned'.op = "ingest_trace" => \A s \in Traces : IngestTrace(s) =>
          LET added == IF Len(s) = 0 THEN 0 ELSE Len(s) - 1
          IN  /\ transitions' = RecordPairs(transitions, s, 1)
              /\ total_traces' = total_traces + added
              /\ TableSum(RouterAgents)' = TableSum(RouterAgents) + added
              /\ Len(s) <= 1 => transitions' = transitions
              /\ (/\ transitions = << >>
                  /\ Len(s) = 3
                  /\ s[1] # s[2] /\ s[2] # s[3] /\ s[1] # s[3])
                 => /\ predict_next(transitions', s[1], prediction_threshold)
                         = [agent |-> s[2], confidence |-> <<1, 1>>]
                    /\ predict_next(transitions', s[2], prediction_threshold)
                         = [agent |-> s[3], confidence |-> <<1, 1>>]]_vars

\* ingest_trace(["A", "B", "C"]) has returned on a router that was empty
C12_Witness ==
    /\ returned.op = "ingest_trace"
    /\ seen = <<(<<"A", "B">>), (<<"B", "C">>)>>
    /\ total_traces = 2
    /\ TableCount("A", "B") = 1 /\ TableCount("B", "C") = 1

\* the run in progress, or the one that ended last
ThisRunId == Len(history)

\* the run that registered the handle kept for agent_id
OwnerOf(agent_id) ==
    tasks[DictGet(preloaded, agent_id, 0)].run

(***************************************************************************)
(* C15: the preload map belongs to one run_chain invocation. A handle that *)
(* a run is about to join and delete, or to replace by a new one, was      *)
(* registered by that same run; and when a run has ended, by returning or  *)
(* by raising, no handle that it registered is left in the map.            *)
(***************************************************************************)
C15_PreloadMapOwnedByOneRun ==
    /\ (pc = "join" /\ DictHas(preloaded, Agent)) => OwnerOf(Agent) = ThisRunId
    /\ pc = "predict" =>
           LET predicted == should_preload(transitions, Agent, prediction_threshold)
           IN  (predicted # NoneAgent /\ DictHas(preloaded, predicted))
                   => OwnerOf(predicted) = ThisRunId
    /\ pc \in {"done", "failed"} =>
           \A k \in DOMAIN preloaded : tasks[preloaded[k][2]].run # ThisRunId

\* the agent of the step after the current one
NextAgent == agent_ids[i + 2]

(***************************************************************************)
(* C16: within a run, for every non-final step N, the transition           *)
(* (agent N, agent N+1) is recorded after the result of step N has been    *)
(* appended and before should_preload(agent N) is evaluated, so that the   *)
(* decision is taken on a table that holds the transition; a preload task  *)
(* is submitted only by the decision, for the candidate it returned, and   *)
(* is submitted whenever it returns one; after the final step the run      *)
(* ends with nothing recorded and nothing submitted.                       *)
(***************************************************************************)
C16_RecordBeforeDecision ==
    [][/\ (transitions' # transitions \/ total_traces' # total_traces)
              => /\ pc = "record" /\ pc' = "predict"
                 /\ i < Len(agent_ids) - 1
                 /\ Len(results) = i + 1
                 /\ transitions' = record_transition(transitions, Agent, NextAgent)
       /\ (pc # "predict" /\ pc' = "predict")
              => /\ pc = "record"
                 /\ TableCount(Agent, NextAgent)' = TableCount(Agent, NextAgent) + 1
       /\ (pc = "predict" /\ pc' # "predict")
              => LET predicted == should_preload(transitions, Agent, prediction_threshold)
                 IN  IF predicted # NoneAgent
                     THEN /\ Len(tasks') = Len(tasks) + 1
                          /\ tasks'[Len(tasks')].agent_id = predicted
                          /\ DictGet(preloaded', predicted, 0) = Len(tasks')
                     ELSE tasks' = tasks /\ preloaded' = preloaded
       /\ Len(tasks') # Len(tasks) => pc = "predict"
       /\ (pc = "record" /\ pc' # "record" /\ i = Len(agent_ids) - 1)
              => /\ pc' = "done"
                 /\ UNCHANGED <<transitions, total_traces, tasks, preloaded>>]_vars

\* in a first run the transition of step 0 is recorded once and the preload
\* of the next agent, decided after it, has its handle registered
C16_Witness ==
    /\ pc = "join"
    /\ i = 1
    /\ Len(history) = 1
    /\ total_traces = 1
    /\ TableCount(agent_ids[1], agent_ids[2]) = 1
    /\ DictHas(preloaded, Agent)
    /\ Len(results) = 1

\* the input the current step must work on: the initial input for step 0, the
\* output text of the previous result for a later step
ExpectedInput ==
    IF i = 0 THEN input_text ELSE results[i].output

(***************************************************************************)
(* C17: a run of n agents whose required invocations all succeed returns   *)
(* exactly n results in chain order, result k carrying agent_ids[k]. Step  *)
(* 0 is looked up and invoked with the initial input, and every later step *)
(* i with the output text of result i-1 (cached or invoked), which exists  *)
(* before the lookup of step i.                                            *)
(***************************************************************************)
C17_ChainFeedsOutputsForward ==
    /\ (pc \in {"done", "failed"} /\ err.raised_by # "invoke_agent")
           => /\ pc = "done"
              /\ Len(results) = Len(agent_ids)
              /\ \A k \in DOMAIN results : results[k].agent_id = agent_ids[k]
    /\ pc \in {"get", "invoke", "put"}
           => /\ Len(results) = i
              /\ DictGet(Payload, "input_text", << >>) = ExpectedInput
              /\ Key = build_key(Agent, payload_of(ExpectedInput, context), context)
    /\ pc = "put"
           => /\ result.agent_id = Agent
              /\ result.output = completion_of(Agent, ExpectedInput)

\* the position of the first record_transition(from_agent, to_agent) call among
\* the first recordings
SeenIndex(from_agent, to_agent) ==
    CHOOSE k \in DOMAIN seen : seen[k] = <<from_agent, to_agent>>

\* the targets of from_agent that share its maximal count
TiedBest(from_agent) ==
    {t \in RouterAgents : /\ Recorded(from_agent, t)
                          /\ TableCount(from_agent, t) = TableMax(from_agent)}

\* whenever predict_next returns a candidate, it is the target of maximal
\* count whose first recording came earliest
PredictsFirstSeen ==
    \A a \in RouterSources :
        LET r == predict_next(transitions, a, prediction_threshold)
        IN  r.agent # NoneAgent
                => /\ r.agent \in TiedBest(a)
                   /\ \A t \in TiedBest(a) : SeenIndex(a, r.agent) <= SeenIndex(a, t)

\* a further record_transition(from_agent, t), for any of the given targets t
\* whose count stays within the maximum, leaves the candidate that
\* predict_next returns for from_agent
CandidateKept(from_agent, targets) ==
    LET before == predict_next(transitions, from_agent, prediction_threshold)
        highest == TableMax(from_agent)
    IN  before.agent # NoneAgent =>
            \A t \in targets \ {before.agent} :
                LET after == predict_next(record_transition(transitions, from_agent, t),
                                          from_agent, prediction_threshold)
                IN  (TableCount(from_agent, t) + 1 <= highest /\ after.agent # NoneAgent)
                        => after.agent = before.agent

\* the targets first recorded from from_agent after the candidate was, or not
\* recorded yet
SeenAfterCandidate(from_agent) ==
    LET best == predict_next(transitions, from_agent, prediction_threshold).agent
    IN  {t \in RouterAgents :
            Recorded(from_agent, t) => SeenIndex(from_agent, t) > SeenIndex(from_agent, best)}

(***************************************************************************)
(* C18: when several targets of A share the maximal count, predict_next(A) *)
(* selects the one whose first record_transition(A, target) call came      *)
(* earliest, and a further record_transition(A, t) for another target t    *)
(* whose count does not exceed the maximum does not change the candidate.  *)
(* (predict_next is a function of the table and the threshold, so repeated *)
(* calls on one table return the same candidate.)                          *)
(***************************************************************************)
C18_TieBreakFirstSeen ==
    /\ PredictsFirstSeen
    /\ \A f \in RouterSources : CandidateKept(f, RouterAgents)

(***************************************************************************)
(* C18 amended: as C18, the increments that do not change the candidate    *)
(* being those to targets first recorded after the candidate (a target     *)
(* recorded before it takes its place on reaching the maximum).            *)
(***************************************************************************)
C18_TieBreakFirstSeenAmended ==
    /\ PredictsFirstSeen
    /\ \A f \in RouterSources : CandidateKept(f, SeenAfterCandidate(f))

\* threshold 0.5, A -> C recorded before A -> B, once each: predict_next("A")
\* returned (C, 1/2)
C18_Witness ==
    /\ prediction_threshold = <<1, 2>>
    /\ seen = <<(<<"A", "C">>), (<<"A", "B">>)>>
    /\ TableCount("A", "C") = 1 /\ TableCount("A", "B") = 1
    /\ returned = [op |-> "predict_next", arg |-> "A",
                   agent |-> "C", confidence |-> <<1, 2>>]

\* the calls that are queries of the router
QueryOps == {"predict_next", "should_preload", "stats"}

(***************************************************************************)
(* C19: queries do not change the router. A step in which predict_next,    *)
(* should_preload or stats was called and returned leaves every transition *)
(* count and the observation counter                                       *)
(* as they were, and with them what stats reports; in particular a query   *)
(* about an agent with no recorded outgoing transition does not make it a  *)
(* known source agent.                                                     *)
(***************************************************************************)
C19_QueriesDoNotChangeRouter ==
    [][returned'.op \in QueryOps
             => /\ transitions' = transitions
                /\ total_traces' = total_traces
                /\ \A f \in RouterAgents \cup {UnseenAgent}, t \in RouterAgents :
                       TableCount(f, t)' = TableCount(f, t)
                /\ stats(transitions', total_traces') = stats(transitions, total_traces)
                /\ \A a \in RouterAgents \cup {UnseenAgent} :
                       (~DictHas(transitions, a)) => ~DictHas(transitions', a)]_vars

\* predict_next was asked about the agent never recorded, on a table that
\* holds transitions, and the agent is not a known source agent
C19_Witness ==
    /\ returned = [op |-> "predict_next", arg |-> UnseenAgent,
                   agent |-> NoneAgent, confidence |-> Zero]
    /\ total_traces >= 1
    /\ ~DictHas(transitions, UnseenAgent)

\* the (from, to) pairs the table holds with a count of at least 1
CountedPairs ==
    {pair \in RouterAgents \X RouterAgents : TableCount(pair[1], pair[2]) >= 1}

(***************************************************************************)
(* C20: with sequential callers, in every reachable state stats() agrees   *)
(* with the table: total_traces is the sum of the counts of all (from, to) *)
(* pairs, transition_pairs is the number of pairs of count >= 1, and       *)
(* known_agents lists, each once, exactly the agents that were from_agent  *)
(* of at least one record_transition call.                                 *)
(***************************************************************************)
C20_StatsConsistent ==
    LET st == stats(transitions, total_traces)
        known == {st.known_agents[k] : k \in DOMAIN st.known_agents}
    IN  /\ st.total_traces = TableSum(RouterAgents)
        /\ st.transition_pairs = Cardinality(CountedPairs)
        /\ CountedPairs = {seen[k] : k \in DOMAIN seen}
        /\ known = {seen[k][1] : k \in DOMAIN seen}
        /\ Cardinality(known) = Len(st.known_agents)

\* stats() returned 3 observations, 2 pairs and the source agents B, A after
\* B -> C was recorded once and then A -> B twice
C20_Witness ==
    /\ returned.op = "stats"
    /\ returned.total_traces = 3
    /\ returned.transition_pairs = 2
    /\ returned.known_agents = <<"B", "A">>
    /\ TableCount("B", "C") = 1
    /\ TableCount("A", "B") = 2

(***************************************************************************)
(* Claims about the cache.                                                 *)
(***************************************************************************)
\* the fields of a dict
FieldNames(d) ==
    {d[k][1] : k \in DOMAIN d}

\* two dicts are equal: the same fields with the same values, in any order
SameDict(d1, d2) ==
    /\ FieldNames(d1) = FieldNames(d2)
    /\ \A f \in FieldNames(d1) : DictGet(d1, f, << >>) = DictGet(d2, f, << >>)

\* the context of a call: a call without a context has the empty context
ContextOf(call) ==
    IF call.context = NoneContext THEN << >> ELSE call.context

\* two calls are made with equal (agent identifier, payload, context) triples
SameRequest(c1, c2) ==
    /\ c1.agent_id = c2.agent_id
    /\ SameDict(c1.payload, c2.payload)
    /\ SameDict(ContextOf(c1), ContextOf(c2))

(***************************************************************************)
(* C13: the cache key is a pure function of (agent identifier, payload,    *)
(* context): any two get or put calls, whenever they are made and whatever *)
(* the order in which the fields of their dicts were inserted, address the *)
(* same store key when their triples are equal, and different store keys   *)
(* when their triples differ in the agent, the payload or the context. A   *)
(* call without a context counts as a call with the empty context.         *)
(***************************************************************************)
C13_CacheKeyIsPureFunction ==
    \A m, n \in DOMAIN calls :
        (calls[m].key = calls[n].key) <=> SameRequest(calls[m], calls[n])

\* a put and a later get, made at different times with the payload's fields in
\* different orders, addressed one key, and a get for another agent addressed
\* another key
C13_Witness ==
    /\ Len(calls) = 3
    /\ calls[1].op = "put" /\ calls[1].payload = PayloadQ
    /\ calls[2].op = "get" /\ calls[2].payload = PayloadQReordered
    /\ calls[1].agent_id = calls[2].agent_id
    /\ calls[1].at # calls[2].at
    /\ calls[1].key = calls[2].key
    /\ calls[3].agent_id # calls[1].agent_id
    /\ calls[3].key # calls[1].key

\* the latest put made before call n with the triple of call n (0 when none)
LastPut(n) ==
    LET earlier == {m \in 1..(n - 1) : /\ calls[m].op = "put"
                                       /\ SameRequest(calls[m], calls[n])}
    IN  IF earlier = {} THEN 0
        ELSE CHOOSE m \in earlier : \A k \in earlier : k <= m

\* the hit and miss counters before call n
CountersBefore(n) ==
    IF n = 1 THEN [hits |-> 0, misses |-> 0]
    ELSE [hits |-> calls[n - 1].hits, misses |-> calls[n - 1].misses]

(***************************************************************************)
(* C14: put/get round trip, last write wins. A put stores its response     *)
(* with the configured time-to-live; a get made before the expiry of the   *)
(* latest put on the same triple returns the response of that put and      *)
(* counts as a hit; a get made once the time-to-live has elapsed, or with  *)
(* no put before it, returns None and counts as a miss.                    *)
(***************************************************************************)
C14_PutGetRoundTrip ==
    \A n \in DOMAIN calls :
        LET c == calls[n]
            m == LastPut(n)
            before == CountersBefore(n)
        IN  /\ (c.op = "put" /\ n = Len(calls))
                   => /\ c.key \in DOMAIN store
                      /\ store[c.key].expires = c.at + cache_ttl
                      /\ json_loads(store[c.key].value) = c.response
            /\ c.op = "get"
                   => IF m # 0 /\ c.at < calls[m].at + cache_ttl
                      THEN /\ c.returned = calls[m].response
                           /\ c.hits = before.hits + 1
                           /\ c.misses = before.misses
                      ELSE /\ c.returned = NoResult
                           /\ c.hits = before.hits
                           /\ c.misses = before.misses + 1

\* two puts on one triple, then a get before the expiry returned the response
\* of the second put
C14_Witness ==
    /\ Len(calls) = 3
    /\ calls[1].op = "put" /\ calls[2].op = "put" /\ calls[3].op = "get"
    /\ SameRequest(calls[1], calls[2]) /\ SameRequest(calls[2], calls[3])
    /\ calls[1].response # calls[2].response
    /\ calls[2].at < calls[3].at
    /\ calls[3].returned = calls[2].response

====
